---- MODULE Spec2Model ----
(***************************************************************************)
(* Supported-version evaluation (src/servers/supportedVersions/types.ts)   *)
(* and the window.Notification shim (src/injected.ts) of the desktop       *)
(* client, as state machines.                                              *)
(*                                                                         *)
(* Time is counted in ticks, TicksPerDay ticks to the day.  One invocation *)
(* reads the clock within one tick, so every `new Date()` of an invocation *)
(* is the variable now.                                                    *)
(***************************************************************************)
EXTENDS Integers, Sequences, FiniteSets, TLC

VARIABLES
    now,          \* the wall clock, in ticks
    call,         \* arguments of the pure function under evaluation
    ret,          \* its result, NotCalled before the call
    server,       \* the Server descriptor given to isServerVersionSupported
    builtinJWT,   \* what decode(builtinSupportedVersionsJWT) yields
    cloudJWT,     \* what decode(sampleCloudInfo.signed) yields
    samplePolicy, \* sampleServerSupportedVersions
    pc,           \* position of the isServerVersionSupported invocation
    policy,       \* value getSupportedVersionsData resolved to
    result,       \* completion of isServerVersionSupported
    dispatched,   \* actions handed to the store's dispatch, in order
    createState,  \* per notification: the createNotification promise
    createdId,    \* per notification: the id createNotification resolved with
    destroyPromise,   \* per notification: state of this[destroyPromiseSymbol]'s promise
    hasDestroyPromise,\* per notification: whether this[destroyPromiseSymbol] is set
    reactions,    \* per notification: close() callbacks registered and not yet run
    closeCalls,   \* per notification: close() calls made so far
    destroyed     \* ids passed to destroyNotification, in order

vars == <<now, call, ret, server, builtinJWT, cloudJWT, samplePolicy, pc, policy,
          result, dispatched, createState, createdId, destroyPromise,
          hasDestroyPromise, reactions, closeCalls, destroyed>>

versionVars == <<server, builtinJWT, cloudJWT, samplePolicy, pc, policy, result, dispatched>>
notificationVars == <<createState, createdId, destroyPromise, hasDestroyPromise,
                      reactions, closeCalls, destroyed>>
callVars == <<call, ret>>

----------------------------------------------------------------------------
(* Bounds of the model *)

TicksPerDay == 2
MaxMessages == 3
MaxThreshold == 2
MaxVersions == 2
MaxExceptions == 1
MaxCloseCalls == 3
NumNotifications == 2

(* Program constants *)

DisplayWindowDays == 15

----------------------------------------------------------------------------
(* JavaScript values that are not objects of the model *)

Undefined == [kind |-> "undefined"]
Null == [kind |-> "null"]
Thrown == [kind |-> "throw"]
NotCalled == [kind |-> "notCalled"]

Min(a, b) == IF a <= b THEN a ELSE b

\* moment(expiration).diff(new Date(), 'days'): the difference in days,
\* truncated toward zero (moment's absFloor), not floored.
DiffDays(expiration, t) ==
    LET d == expiration - t
    IN  IF d >= 0 THEN d \div TicksPerDay ELSE -((-d) \div TicksPerDay)

----------------------------------------------------------------------------
(* getExpirationMessage *)

\* InsertMessage as an unstable sort would do it: m goes before the elements of equal remainingDays.
InsertMessageBeforeEquals(m, sorted) ==
    LET before == SelectSeq(sorted, LAMBDA x : x.remainingDays < m.remainingDays)
        after == SelectSeq(sorted, LAMBDA x : x.remainingDays >= m.remainingDays)
    IN  before \o <<m>> \o after

\* One step of the stable sort: m goes after every element whose
\* remainingDays is not greater than its own.
RECURSIVE InsertMessage(_, _)
InsertMessage(m, sorted) ==
    IF sorted = <<>> THEN <<m>>
    ELSE IF Head(sorted).remainingDays <= m.remainingDays
         THEN <<Head(sorted)>> \o InsertMessage(m, Tail(sorted))
         ELSE <<m>> \o sorted

\* messages.sort((a, b) => a.remainingDays - b.remainingDays): ascending, stable.
RECURSIVE SortMessages(_)
SortMessages(messages) ==
    IF messages = <<>> THEN <<>>
    ELSE InsertMessage(messages[Len(messages)],
                       SortMessages(SubSeq(messages, 1, Len(messages) - 1)))

\* The predicate of sortedMessages.find: the days left do not exceed the threshold.
FindPredicate(daysLeft, remainingDays) == daysLeft <= remainingDays

\* sortedMessages.find(...): the first element satisfying the predicate, else undefined.
RECURSIVE FindMessage(_, _)
FindMessage(sorted, daysLeft) ==
    IF sorted = <<>> THEN Undefined
    ELSE IF FindPredicate(daysLeft, Head(sorted).remainingDays) THEN Head(sorted)
         ELSE FindMessage(Tail(sorted), daysLeft)

\* The guard of getExpirationMessage; an absent messages list is <<>>.
\* The model's expiration is always present.
SelectorReturnsEarly(messages, expiration, t) ==
    Len(messages) = 0 \/ DiffDays(expiration, t) < 0

getExpirationMessage(messages, expiration, t) ==
    IF SelectorReturnsEarly(messages, expiration, t) THEN Undefined
    ELSE FindMessage(SortMessages(messages), DiffDays(expiration, t))

----------------------------------------------------------------------------
(* getExpirationMessageTranslated *)

\* A parameter map is a sequence of <<key, value>> pairs in insertion
\* order; a later pair overrides an earlier one with the same key, as the
\* object spread does.
HasParam(params, key) == \E i \in 1..Len(params) : params[i][1] = key

ParamValue(params, key) ==
    LET i == CHOOSE j \in 1..Len(params) :
                 /\ params[j][1] = key
                 /\ \A k \in (j+1)..Len(params) : params[k][1] # key
    IN  params[i][2]

\* const params = { instance_ws_name, instance_domain, remaining_days, ...message?.params }
TranslationParams(message, expiration, serverName, serverUrl, t) ==
    << <<"instance_ws_name", serverName>>,
       <<"instance_domain", serverUrl>>,
       <<"remaining_days", DiffDays(expiration, t)>> >>
    \o (IF message = Undefined THEN <<>> ELSE message.params)

\* applyParams: a template is a sequence of tokens, [lit |-> text] or
\* [ph |-> name]; each placeholder naming a key of params is replaced by its
\* value, any other placeholder is left as written.
applyParams(template, params) ==
    [i \in 1..Len(template) |->
        IF "ph" \in DOMAIN template[i] /\ HasParam(params, template[i].ph)
        THEN [val |-> ParamValue(params, template[i].ph)]
        ELSE template[i]]

\* The guard of getExpirationMessageTranslated.
TranslatorReturnsNull(i18n, message, params) ==
    \/ message = Undefined
    \/ i18n = Undefined
    \/ ParamValue(params, "remaining_days") > DisplayWindowDays

\* i18n[language] ?? i18n.en
LanguageDictionary(i18n, language) ==
    IF language \in DOMAIN i18n THEN i18n[language]
    ELSE IF "en" \in DOMAIN i18n THEN i18n["en"]
    ELSE Undefined

\* getTranslation(key); reached only with a dictionary for the language.
getTranslation(i18nLang, key, params) ==
    IF key # "" /\ key \in DOMAIN i18nLang /\ i18nLang[key] # <<>>
    THEN [kind |-> "string", text |-> applyParams(i18nLang[key], params)]
    ELSE Undefined

\* Reading i18nLang[key] of an undefined i18nLang throws a TypeError; the
\* read happens for the first non-empty key among title, subtitle, description.
TranslationThrows(i18nLang, message) ==
    /\ i18nLang = Undefined
    /\ (message.title # "" \/ message.subtitle # "" \/ message.description # "")

getExpirationMessageTranslated(i18n, message, expiration, language, serverName, serverUrl, t) ==
    LET params == TranslationParams(message, expiration, serverName, serverUrl, t)
    IN  IF TranslatorReturnsNull(i18n, message, params) THEN Null
        ELSE LET i18nLang == LanguageDictionary(i18n, language)
             IN  IF TranslationThrows(i18nLang, message) THEN Thrown
                 ELSE IF i18nLang = Undefined
                      THEN [kind |-> "translated", title |-> Undefined,
                            subtitle |-> Undefined, description |-> Undefined,
                            link |-> message.link]
                      ELSE [kind |-> "translated",
                            title |-> getTranslation(i18nLang, message.title, params),
                            subtitle |-> getTranslation(i18nLang, message.subtitle, params),
                            description |-> getTranslation(i18nLang, message.description, params),
                            link |-> message.link]

----------------------------------------------------------------------------
(* getSupportedVersionsData *)

\* The `<` of two timestamp strings: lexicographic order of their characters
\* (digits here), a proper prefix being the lesser.
RECURSIVE TimestampLess(_, _)
TimestampLess(a, b) ==
    IF b = <<>> THEN FALSE
    ELSE IF a = <<>> THEN TRUE
    ELSE IF Head(a) # Head(b) THEN Head(a) < Head(b)
    ELSE TimestampLess(Tail(a), Tail(b))

\* readBuiltinSupportedVersions without its try/catch: the exception of decode leaves it.
readBuiltinWithoutCatch == builtinJWT

\* readBuiltinSupportedVersions: the decoded built-in policy, or the bundled
\* sample when decode throws.
readBuiltinSupportedVersions ==
    IF builtinJWT = Thrown THEN samplePolicy ELSE builtinJWT

\* getCloudInfo: decode(sampleCloudInfo.signed), whose exception is not caught.
getCloudInfo == cloudJWT

\* if (!supportedVersions || server.workspaceUID)
TakesCloudInfo(s) == s.supportedVersions = Undefined \/ s.workspaceUID # ""

getSupportedVersionsData(s) ==
    LET buildSupportedVersions == readBuiltinSupportedVersions
    IN  IF s.supportedVersions = Undefined \/ s.workspaceUID = ""
        THEN buildSupportedVersions
        ELSE IF TakesCloudInfo(s)
        THEN getCloudInfo
        ELSE IF TimestampLess(s.supportedVersions.timestamp,
                              buildSupportedVersions.timestamp)
        THEN buildSupportedVersions
        ELSE s.supportedVersions

----------------------------------------------------------------------------
(* isServerVersionSupported *)

\* `~${serverVersion.split('.').slice(0, 2).join('.')}`: a version is the
\* sequence of its dot-separated components, the range keeps the first two.
ServerVersionTilde(serverVersion) ==
    SubSeq(serverVersion, 1, Min(2, Len(serverVersion)))

\* satisfies(version, '~M.m') is >=M.m.0 <M.(m+1).0-0, and satisfies(version,
\* '~M') is >=M.0.0 <(M+1).0.0-0; a prerelease version satisfies neither.
satisfies(version, tilde) ==
    /\ ~version.prerelease
    /\ version.major = tilde[1]
    /\ (Len(tilde) >= 2 => version.minor = tilde[2])

\* list.find(({ version }) => satisfies(version, serverVersionTilde))
RECURSIVE FindVersion(_, _)
FindVersion(list, tilde) ==
    IF list = <<>> THEN Undefined
    ELSE IF satisfies(Head(list).version, tilde) THEN Head(list)
         ELSE FindVersion(Tail(list), tilde)

\* new Date(entry.expiration) > new Date()
NotExpired(entry, t) == entry.expiration > t

\* exceptions?.versions.find(...)
FindException(exceptions, tilde) ==
    IF exceptions = Undefined THEN Undefined
    ELSE FindVersion(exceptions.versions, tilde)

\* server.supportedVersions?.i18n
ServerI18n(s) ==
    IF s.supportedVersions = Undefined THEN Undefined ELSE s.supportedVersions.i18n

\* SupportedBranch with the dispatch ahead of the translation, so that a
\* throw of the translator leaves a dispatched action behind.
SupportedBranchDispatchesFirst(entry, s, t) ==
    LET selectedExpirationMessage ==
            getExpirationMessage(entry.messages, entry.expiration, t)
        translatedMessage ==
            getExpirationMessageTranslated(ServerI18n(s), selectedExpirationMessage,
                                           entry.expiration, "en", s.title, s.url, t)
    IN  [result |-> IF translatedMessage = Thrown THEN "throw" ELSE "true",
         dispatch |-> <<[type |-> "SUPPORTED_VERSION_EXPIRATION_MESSAGE_UPDATED",
                         payload |-> [url |-> s.url,
                                      expirationMessage |-> Null]]>>]

\* The body of either `if (new Date(x.expiration) > new Date())` branch:
\* select, translate, dispatch, return true.  A throw of the translator
\* leaves the branch before the dispatch.
SupportedBranch(entry, s, t) ==
    LET selectedExpirationMessage ==
            getExpirationMessage(entry.messages, entry.expiration, t)
        translatedMessage ==
            getExpirationMessageTranslated(ServerI18n(s), selectedExpirationMessage,
                                           entry.expiration, "en", s.title, s.url, t)
    IN  IF translatedMessage = Thrown
        THEN [result |-> "throw", dispatch |-> <<>>]
        ELSE [result |-> "true",
              dispatch |-> <<[type |-> "SUPPORTED_VERSION_EXPIRATION_MESSAGE_UPDATED",
                              payload |-> [url |-> s.url,
                                           expirationMessage |-> translatedMessage]]>>]

\* isServerVersionSupported after `await getSupportedVersionsData(server)`.
EvaluateVersion(p, s, t) ==
    IF s.version = <<>> THEN [result |-> "false", dispatch |-> <<>>]
    ELSE
    LET serverVersionTilde == ServerVersionTilde(s.version)
        supportedVersion == FindVersion(p.versions, serverVersionTilde)
        exception == FindException(p.exceptions, serverVersionTilde)
    IN  IF supportedVersion # Undefined /\ NotExpired(supportedVersion, t)
        THEN SupportedBranch(supportedVersion, s, t)
        ELSE IF exception # Undefined /\ NotExpired(exception, t)
        THEN SupportedBranch(exception, s, t)
        ELSE [result |-> "false", dispatch |-> <<>>]

\* Line 251: the invocation first awaits the policy; a rejection of
\* getSupportedVersionsData rejects the invocation.
ResolvePolicy ==
    /\ pc = "start"
    /\ LET p == getSupportedVersionsData(server)
       IN  IF p = Thrown
           THEN /\ pc' = "done"
                /\ result' = "throw"
                /\ policy' = policy
           ELSE /\ pc' = "resolved"
                /\ policy' = p
                /\ result' = result
    /\ UNCHANGED <<now, server, builtinJWT, cloudJWT, samplePolicy, dispatched>>
    /\ UNCHANGED callVars
    /\ UNCHANGED notificationVars

\* Lines 252-324.
IsServerVersionSupported ==
    /\ pc = "resolved"
    /\ LET out == EvaluateVersion(policy, server, now)
       IN  /\ result' = out.result
           /\ dispatched' = dispatched \o out.dispatch
    /\ pc' = "done"
    /\ UNCHANGED <<now, server, builtinJWT, cloudJWT, samplePolicy, policy>>
    /\ UNCHANGED callVars
    /\ UNCHANGED notificationVars

----------------------------------------------------------------------------
(* The two pure functions, called on their own *)

\* getExpirationMessage({ messages, expiration }); the sort is in place, so
\* the caller's array is left sorted.  call.given keeps the list as passed.
GetExpirationMessage ==
    /\ ret = NotCalled
    /\ call.fn = "getExpirationMessage"
    /\ ret' = getExpirationMessage(call.messages, call.expiration, now)
    /\ call' = IF SelectorReturnsEarly(call.messages, call.expiration, now)
               THEN call
               ELSE [call EXCEPT !.messages = SortMessages(call.messages)]
    /\ UNCHANGED now
    /\ UNCHANGED versionVars
    /\ UNCHANGED notificationVars

GetExpirationMessageTranslated ==
    /\ ret = NotCalled
    /\ call.fn = "getExpirationMessageTranslated"
    /\ ret' = getExpirationMessageTranslated(call.i18n, call.message, call.expiration,
                                             call.language, call.serverName,
                                             call.serverUrl, now)
    /\ UNCHANGED <<now, call>>
    /\ UNCHANGED versionVars
    /\ UNCHANGED notificationVars

----------------------------------------------------------------------------
(* window.Notification shim: constructor and close() *)

Notifications == 1..NumNotifications
NotificationIds == {100 + n : n \in Notifications}

\* createNotification(...) resolves with an id not handed out before.
CreateNotificationResolves(n, id) ==
    /\ createState[n] = "pending"
    /\ \A m \in Notifications : createdId[m] # id
    /\ createState' = [createState EXCEPT ![n] = "fulfilled"]
    /\ createdId' = [createdId EXCEPT ![n] = id]
    /\ UNCHANGED <<destroyPromise, hasDestroyPromise, reactions, closeCalls, destroyed>>
    /\ UNCHANGED <<now, call, ret>>
    /\ UNCHANGED versionVars

CreateNotificationRejects(n) ==
    /\ createState[n] = "pending"
    /\ createState' = [createState EXCEPT ![n] = "rejected"]
    /\ UNCHANGED <<createdId, destroyPromise, hasDestroyPromise, reactions, closeCalls, destroyed>>
    /\ UNCHANGED <<now, call, ret>>
    /\ UNCHANGED versionVars

\* .then((id) => () => { destroyNotification(id) }): the derived promise
\* settles in a later microtask, fulfilled with the destroy closure or
\* rejected like createNotification.
DestroyPromiseSettles(n) ==
    /\ createState[n] # "pending"
    /\ destroyPromise[n] = "pending"
    /\ destroyPromise' = [destroyPromise EXCEPT ![n] = createState[n]]
    /\ UNCHANGED <<createState, createdId, hasDestroyPromise, reactions, closeCalls, destroyed>>
    /\ UNCHANGED <<now, call, ret>>
    /\ UNCHANGED versionVars

\* close(): returns when this[destroyPromiseSymbol] is unset, else registers
\* a reaction on the promise.
Close(n) ==
    /\ closeCalls[n] < MaxCloseCalls
    /\ closeCalls' = [closeCalls EXCEPT ![n] = @ + 1]
    /\ reactions' = IF hasDestroyPromise[n]
                    THEN [reactions EXCEPT ![n] = @ + 1]
                    ELSE reactions
    /\ UNCHANGED <<createState, createdId, destroyPromise, hasDestroyPromise, destroyed>>
    /\ UNCHANGED <<now, call, ret>>
    /\ UNCHANGED versionVars

\* (destroy) => { delete this[destroyPromiseSymbol]; destroy(); }, run once
\* per registration after the promise is fulfilled.
RunCloseReaction(n) ==
    /\ destroyPromise[n] = "fulfilled"
    /\ reactions[n] > 0
    /\ reactions' = [reactions EXCEPT ![n] = @ - 1]
    /\ hasDestroyPromise' = [hasDestroyPromise EXCEPT ![n] = FALSE]
    /\ destroyed' = Append(destroyed, [notification |-> n, id |-> createdId[n]])
    /\ UNCHANGED <<createState, createdId, destroyPromise, closeCalls>>
    /\ UNCHANGED <<now, call, ret>>
    /\ UNCHANGED versionVars

----------------------------------------------------------------------------
(* Inputs *)

SeqsUpTo(S, n) == UNION {[1..k -> S] : k \in 0..n}

Message(remainingDays, title, params) ==
    [remainingDays |-> remainingDays, title |-> title, subtitle |-> "",
     description |-> "", type |-> "warning", params |-> params, link |-> "l"]

Template ==
    <<[ph |-> "instance_ws_name"], [lit |-> " expires in "],
      [ph |-> "remaining_days"], [lit |-> " days"], [ph |-> "unknown"]>>

I18nEn == [en |-> [t |-> Template]]
I18nFr == [fr |-> [t |-> Template]]

Version(major, minor, patch, prerelease) ==
    [major |-> major, minor |-> minor, patch |-> patch, prerelease |-> prerelease]

Policy(origin, timestamp, versions, exceptions) ==
    [origin |-> origin, timestamp |-> timestamp, versions |-> versions,
     exceptions |-> exceptions]

Message10 == Message(10, "t", <<>>)

ServerUrl == "https://open.rocket.chat"
ServerTitle == "Open"

IdleCall == [fn |-> "none"]
IdleVersions ==
    /\ server = Undefined
    /\ builtinJWT = Undefined
    /\ cloudJWT = Undefined
    /\ samplePolicy = Undefined
    /\ pc = "idle"
    /\ policy = Undefined
    /\ result = "none"
    /\ dispatched = <<>>

IdleNotifications ==
    /\ createState = <<>>
    /\ createdId = <<>>
    /\ destroyPromise = <<>>
    /\ hasDestroyPromise = <<>>
    /\ reactions = <<>>
    /\ closeCalls = <<>>
    /\ destroyed = <<>>

\* Policy entries: 6.5.0 with and without a message, 6.4.0 without.
PolicyEntries ==
    {[version |-> Version(6, 5, 0, FALSE), expiration |-> d * TicksPerDay,
      messages |-> m] : d \in {-1, 0, 1, DisplayWindowDays + 5}, m \in {<<>>, <<Message10>>}}
    \cup
    {[version |-> Version(6, 4, 0, FALSE), expiration |-> d * TicksPerDay,
      messages |-> <<>>] : d \in {-1, 0, 1, DisplayWindowDays + 5}}

ExceptionEntries ==
    {[version |-> Version(6, 5, 2, FALSE), expiration |-> d * TicksPerDay,
      messages |-> <<Message10>>] : d \in {0, 1}}
    \cup
    {[version |-> Version(6, 5, 2, TRUE), expiration |-> TicksPerDay,
      messages |-> <<Message10>>]}

ExceptionsChoices ==
    {Undefined} \cup {[versions |-> v] : v \in SeqsUpTo(ExceptionEntries, MaxExceptions)}

\* Zero-padded, so that the string order is the chronological one.
Timestamps == {<<0, 9>>, <<1, 0>>, <<1, 1>>}

ServerPolicies ==
    {Undefined} \cup
    {[timestamp |-> <<1, 0>>, versions |-> <<>>, exceptions |-> Undefined, i18n |-> d] :
        d \in {Undefined, I18nEn, I18nFr}}

Servers(versions) ==
    [version : versions, url : {ServerUrl}, title : {ServerTitle},
     workspaceUID : {"", "uid"}, supportedVersions : ServerPolicies]

\* Many policy contents, resolved for a server that reports its version.
InitEvaluation ==
    /\ server \in Servers({<<6, 5, 3>>, <<6>>})
    /\ \E v \in SeqsUpTo(PolicyEntries, MaxVersions), e \in ExceptionsChoices :
          /\ builtinJWT = Policy("builtin", <<1, 0>>, v, e)
          /\ samplePolicy = Policy("sample", <<0, 9>>, v, e)
          /\ cloudJWT \in {Thrown, Policy("cloud", <<1, 1>>, v, e)}

SmallContents ==
    {[versions |-> <<e>>, exceptions |-> Undefined] :
        e \in {x \in PolicyEntries : x.version.minor = 5 /\ x.expiration \in {0, TicksPerDay}}}

\* Few policy contents, every outcome of the two decodes, every order of the
\* timestamps, servers with and without a version.
InitResolution ==
    /\ server \in Servers({<<>>, <<6, 5, 3>>, <<6>>})
    /\ \E cb \in SmallContents, cc \in SmallContents, ts \in Timestamps, tc \in Timestamps :
          /\ builtinJWT \in {Thrown, Policy("builtin", ts, cb.versions, cb.exceptions)}
          /\ cloudJWT \in {Thrown, Policy("cloud", tc, cc.versions, cc.exceptions)}
    /\ \E cs \in SmallContents : samplePolicy = Policy("sample", <<1, 0>>, cs.versions, cs.exceptions)

Init ==
    /\ now = 0
    /\ call = IdleCall
    /\ ret = NotCalled
    /\ InitEvaluation \/ InitResolution
    /\ pc = "start"
    /\ policy = Undefined
    /\ result = "none"
    /\ dispatched = <<>>
    /\ IdleNotifications

Next == ResolvePolicy \/ IsServerVersionSupported

Spec == Init /\ [][Next]_vars

SelectorMessages ==
    {Message(d, title, <<>>) : d \in 0..MaxThreshold, title \in {"a", "b"}}

InitSelector ==
    /\ now = 0
    /\ call \in {[fn |-> "getExpirationMessage", given |-> m, messages |-> m,
                  expiration |-> e] :
                    m \in SeqsUpTo(SelectorMessages, MaxMessages),
                    e \in (-2 * TicksPerDay)..((MaxThreshold + 2) * TicksPerDay)}
    /\ ret = NotCalled
    /\ IdleVersions
    /\ IdleNotifications

NextSelector == GetExpirationMessage

SpecSelector == InitSelector /\ [][NextSelector]_vars

TranslatorMessages ==
    {Undefined} \cup
    {Message(10, title, params) :
        title \in {"t", ""},
        params \in {<<>>, << <<"remaining_days", 5>> >>,
                    << <<"remaining_days", DisplayWindowDays + 5>> >>}}

InitTranslator ==
    /\ now = 0
    /\ call \in [fn : {"getExpirationMessageTranslated"},
                 i18n : {Undefined, I18nEn, I18nFr},
                 message : TranslatorMessages,
                 expiration : (-2 * TicksPerDay)..((DisplayWindowDays + 2) * TicksPerDay),
                 language : {"en", "fr", "de"},
                 serverName : {ServerTitle},
                 serverUrl : {ServerUrl}]
    /\ ret = NotCalled
    /\ IdleVersions
    /\ IdleNotifications

NextTranslator == GetExpirationMessageTranslated

SpecTranslator == InitTranslator /\ [][NextTranslator]_vars

\* Every notification constructed, none closed, createNotification pending.
InitNotification ==
    /\ now = 0
    /\ call = IdleCall
    /\ ret = NotCalled
    /\ IdleVersions
    /\ createState = [n \in Notifications |-> "pending"]
    /\ createdId = [n \in Notifications |-> 0]
    /\ destroyPromise = [n \in Notifications |-> "pending"]
    /\ hasDestroyPromise = [n \in Notifications |-> TRUE]
    /\ reactions = [n \in Notifications |-> 0]
    /\ closeCalls = [n \in Notifications |-> 0]
    /\ destroyed = <<>>

NextNotification ==
    \E n \in Notifications :
        \/ \E id \in NotificationIds : CreateNotificationResolves(n, id)
        \/ CreateNotificationRejects(n)
        \/ DestroyPromiseSettles(n)
        \/ Close(n)
        \/ RunCloseReaction(n)

SpecNotification == InitNotification /\ [][NextNotification]_vars

----------------------------------------------------------------------------
(* Properties *)

\* getSupportedVersionsData has returned (policy holds its value).
Resolved == pc # "start" /\ policy # Undefined
\* getSupportedVersionsData has thrown.
ResolverThrew == pc = "done" /\ policy = Undefined
\* The server has a server-reported policy and a workspaceUID.
HasPolicyAndUID == server.supportedVersions # Undefined /\ server.workspaceUID # ""
\* The baseline: the built-in policy, the sample when its decode throws.
Baseline == IF builtinJWT = Thrown THEN samplePolicy ELSE builtinJWT

\* C1: for a server with a server-reported policy and a workspaceUID,
\* getSupportedVersionsData returns the newer of the cloud policy and the
\* baseline by timestamp: the cloud policy when its timestamp is not less
\* than the baseline's, the baseline when the cloud timestamp is older.
C1_NewerOfCloudAndBaseline ==
    (Resolved /\ HasPolicyAndUID /\ cloudJWT # Thrown) =>
        policy = IF TimestampLess(cloudJWT.timestamp, Baseline.timestamp)
                 THEN Baseline
                 ELSE cloudJWT

\* C2: getExpirationMessage returns undefined for every expiration before
\* the current time, whatever the messages are.
C2_PastExpirationGivesUndefined ==
    (call.fn = "getExpirationMessage" /\ ret # NotCalled /\ call.expiration < now) =>
        ret = Undefined

\* The whole number of days from now to the expiration.
WholeDaysLeft(expiration) ==
    IF expiration >= now THEN (expiration - now) \div TicksPerDay
    ELSE -((now - expiration) \div TicksPerDay)

\* C3: getExpirationMessageTranslated returns null whenever the whole number
\* of days from now to the expiration is greater than 15.
C3_NullBeyondDisplayWindow ==
    (call.fn = "getExpirationMessageTranslated" /\ ret # NotCalled
        /\ WholeDaysLeft(call.expiration) > 15) =>
        ret = Null

\* The version v lies in the tilde range of the server version sv.
InTildeRange(v, sv) ==
    /\ ~v.prerelease
    /\ v.major = sv[1]
    /\ (Len(sv) >= 2 => v.minor = sv[2])

\* The first entry of list in the tilde range of sv is list[i].
IsFirstInRange(list, i, sv) ==
    /\ i \in 1..Len(list)
    /\ InTildeRange(list[i].version, sv)
    /\ \A j \in 1..(i - 1) : ~InTildeRange(list[j].version, sv)

NoneInRange(list, sv) == \A i \in 1..Len(list) : ~InTildeRange(list[i].version, sv)

\* The scenario of C4: server 6.5.3, and the first entry of the resolved
\* policy in its range is 6.5.0, expires tomorrow and carries one message
\* with remainingDays 10 and a title key.
C4Scenario ==
    /\ pc = "done"
    /\ Resolved
    /\ server.version = <<6, 5, 3>>
    /\ \E i \in 1..Len(policy.versions) :
          /\ IsFirstInRange(policy.versions, i, server.version)
          /\ policy.versions[i].version = Version(6, 5, 0, FALSE)
          /\ policy.versions[i].expiration = now + TicksPerDay
          /\ Len(policy.versions[i].messages) = 1
          /\ policy.versions[i].messages[1].remainingDays = 10
          /\ policy.versions[i].messages[1].title # ""

\* C4: in that scenario isServerVersionSupported returns true and the action
\* it dispatches carries a non-null translated expirationMessage.
C4_ScenarioDispatchesTranslation ==
    C4Scenario =>
        /\ result = "true"
        /\ Len(dispatched) = 1
        /\ dispatched[1].payload.expirationMessage # Null

\* The first entry of policy.versions in the server's range exists and does
\* not expire strictly in the future.
FirstMatchExpired ==
    /\ Resolved
    /\ server.version # <<>>
    /\ \E i \in 1..Len(policy.versions) :
          /\ IsFirstInRange(policy.versions, i, server.version)
          /\ ~(policy.versions[i].expiration > now)

\* Exceptions are present and their first entry in range expires strictly
\* in the future.
ExceptionSupports ==
    /\ policy.exceptions # Undefined
    /\ \E i \in 1..Len(policy.exceptions.versions) :
          /\ IsFirstInRange(policy.exceptions.versions, i, server.version)
          /\ policy.exceptions.versions[i].expiration > now

\* C5: when the first matching entry of policy.versions has expired,
\* isServerVersionSupported returns true exactly when exceptions are present
\* and their first matching entry expires strictly in the future, returns
\* false otherwise, and dispatches nothing unless the exception supports.
C5_ExpiredFallsThroughToExceptions ==
    (pc = "done" /\ FirstMatchExpired) =>
        /\ result = IF ExceptionSupports THEN "true" ELSE "false"
        /\ (~ExceptionSupports => dispatched = <<>>)

\* The fall-through of C5 for the invocations that complete by returning:
\* the only other completion is an exception of the translator.
ExpiredFallsThroughUnlessThrown ==
    (pc = "done" /\ FirstMatchExpired) =>
        /\ result \in IF ExceptionSupports THEN {"true", "throw"} ELSE {"false"}
        /\ (~ExceptionSupports => dispatched = <<>>)

\* C6: an invocation dispatches at most one action, of type
\* SUPPORTED_VERSION_EXPIRATION_MESSAGE_UPDATED with payload url server.url,
\* and exactly one if and only if it returns true; an invocation that
\* returns false or fails dispatches none.
C6_OneDispatchIffTrue ==
    /\ Len(dispatched) <= 1
    /\ \A i \in 1..Len(dispatched) :
          /\ dispatched[i].type = "SUPPORTED_VERSION_EXPIRATION_MESSAGE_UPDATED"
          /\ dispatched[i].payload.url = server.url
    /\ (pc # "done" => dispatched = <<>>)
    /\ (pc = "done" => (Len(dispatched) = 1 <=> result = "true"))

\* An invocation returned true from the exceptions branch with a translated message.
C6_Witness ==
    /\ pc = "done"
    /\ result = "true"
    /\ Len(dispatched) = 1
    /\ dispatched[1].payload.expirationMessage # Null
    /\ FirstMatchExpired

\* C7: for a server whose version is absent, isServerVersionSupported
\* completes with false, never with an exception, and dispatches nothing.
C7_AbsentVersionReturnsFalse ==
    (pc = "done" /\ server.version = <<>>) =>
        result = "false" /\ dispatched = <<>>

Eligible(i) == call.given[i].remainingDays >= WholeDaysLeft(call.expiration)

\* Index i holds the smallest eligible threshold, and is the earliest index
\* that does.
IsTightest(i) ==
    /\ Eligible(i)
    /\ \A j \in 1..Len(call.given) :
          Eligible(j) =>
              \/ call.given[j].remainingDays > call.given[i].remainingDays
              \/ (call.given[j].remainingDays = call.given[i].remainingDays /\ j >= i)

\* C9: for a non-empty list and an expiration not in the past,
\* getExpirationMessage returns the message with the smallest remainingDays
\* among those whose remainingDays is at least the whole days left, the
\* earliest in the given list among equals, and undefined when there is none.
C9_TightestEligibleMessage ==
    (call.fn = "getExpirationMessage" /\ ret # NotCalled
        /\ Len(call.given) > 0 /\ call.expiration >= now) =>
        IF \E i \in 1..Len(call.given) : Eligible(i)
        THEN \E i \in 1..Len(call.given) : IsTightest(i) /\ ret = call.given[i]
        ELSE ret = Undefined

\* A result chosen among two messages of the same threshold that follow, in
\* the given list, a message of a larger one.
C9_Witness ==
    /\ call.fn = "getExpirationMessage"
    /\ ret # NotCalled
    /\ call.expiration > now
    /\ \E i, j, k \in 1..Len(call.given) :
          /\ k < i /\ i < j
          /\ call.given[k].remainingDays > call.given[i].remainingDays
          /\ call.given[i].remainingDays = call.given[j].remainingDays
          /\ call.given[i] # call.given[j]
          /\ IsTightest(i)
          /\ ret = call.given[i]

DestroyCalls(n) == {i \in 1..Len(destroyed) : destroyed[i].notification = n}

\* C10: destroyNotification is invoked at most once for a notification's id,
\* and never before createNotification has resolved with that id.
C10_DestroyedAtMostOnce ==
    \A n \in Notifications :
        /\ Cardinality(DestroyCalls(n)) <= 1
        /\ \A i \in DestroyCalls(n) :
              createState[n] = "fulfilled" /\ destroyed[i].id = createdId[n]

\* The second half of C10 alone: every destroyNotification follows the
\* resolution of createNotification and passes its id.
DestroyedOnlyAfterCreated ==
    \A n \in Notifications :
        \A i \in DestroyCalls(n) :
            createState[n] = "fulfilled" /\ destroyed[i].id = createdId[n]

====
